---- MODULE Spec2Model ----
(***************************************************************************)
(* The table controller of src/sort.js: a click listener on every header   *)
(* cell (sortTable) and a change listener on the filter checkbox.  The     *)
(* document is the state: the order of the body rows, the class lists of   *)
(* rows and headers, the text of the cells and the checkbox.               *)
(*                                                                         *)
(* A text is a sequence of one-character strings; CodeUnit gives each      *)
(* character its UTF-16 code unit, which is what the host's string         *)
(* comparison and case mapping work on.                                    *)
(***************************************************************************)
EXTENDS Integers, Sequences, FiniteSets, TLC

\* Number of body rows of the table.
NumRows == 3
\* Number of header cells (columns) of the table.
NumCols == 2
\* Number of body rows of the long table.
LongRows == 7

(***************************************************************************)
(* Characters and strings of the host language                             *)
(***************************************************************************)

\* The printable ASCII characters, in code-unit order from 32 to 126 (the
\* grave accent, code unit 96, by its name).
Ascii ==
  << " ", "!", "\"", "#", "$", "%", "&", "'", "(", ")", "*", "+", ",", "-", ".", "/",
     "0", "1", "2", "3", "4", "5", "6", "7", "8", "9", ":", ";", "<", "=", ">", "?",
     "@", "A", "B", "C", "D", "E", "F", "G", "H", "I", "J", "K", "L", "M", "N", "O",
     "P", "Q", "R", "S", "T", "U", "V", "W", "X", "Y", "Z", "[", "\\", "]", "^", "_",
     "GRAVE", "a", "b", "c", "d", "e", "f", "g", "h", "i", "j", "k", "l", "m", "n", "o",
     "p", "q", "r", "s", "t", "u", "v", "w", "x", "y", "z", "{", "|", "}", "~" >>

\* Control characters that occur in the text of a table cell.
Controls == {"\t", "\n", "\r", "\f"}

Chars == {Ascii[i] : i \in 1..Len(Ascii)} \cup Controls

\* The UTF-16 code unit of a character.
CodeUnit ==
  [c \in Chars |->
     CASE c = "\t" -> 9
       [] c = "\n" -> 10
       [] c = "\f" -> 12
       [] c = "\r" -> 13
       [] OTHER -> 31 + (CHOOSE i \in 1..Len(Ascii) : Ascii[i] = c)]

\* White space and line terminators, as String.prototype.trim, Number and
\* parseFloat strip them.
WhiteSpace == {" ", "\t", "\n", "\r", "\f"}

Digits == {"0", "1", "2", "3", "4", "5", "6", "7", "8", "9"}

RECURSIVE trimStart(_)
trimStart(s) ==
  IF s # << >> /\ Head(s) \in WhiteSpace THEN trimStart(Tail(s)) ELSE s

RECURSIVE trimEnd(_)
trimEnd(s) ==
  IF s # << >> /\ s[Len(s)] \in WhiteSpace
    THEN trimEnd(SubSeq(s, 1, Len(s) - 1))
    ELSE s

\* String.prototype.trim
trim(s) == trimEnd(trimStart(s))

\* String.prototype.toLowerCase, on the characters of Chars: the letters
\* A..Z (code units 65..90) move to a..z, every other character stays.
toLowerCase(s) ==
  [i \in 1..Len(s) |->
     IF CodeUnit[s[i]] >= 65 /\ CodeUnit[s[i]] <= 90
       THEN Ascii[CodeUnit[s[i]] + 32 - 31]
       ELSE s[i]]

\* The host's string comparison s < t: lexicographic by code unit, a proper
\* prefix being smaller.
RECURSIVE StringLess(_, _)
StringLess(s, t) ==
  IF t = << >> THEN FALSE
  ELSE IF s = << >> THEN TRUE
  ELSE IF CodeUnit[Head(s)] # CodeUnit[Head(t)]
    THEN CodeUnit[Head(s)] < CodeUnit[Head(t)]
    ELSE StringLess(Tail(s), Tail(t))

(***************************************************************************)
(* Natural numbers of any size, for the arithmetic behind the host's       *)
(* numbers: the sequence of the limbs of the number in base Base, the      *)
(* least significant first and the last one not 0; << >> is 0.  The        *)
(* operations on them work on the halves of their operands, so that their  *)
(* evaluation nests no deeper than the logarithm of the operands' length.  *)
(***************************************************************************)

LimbBits == 24

\* 2^LimbBits
Base == 16777216

Min(a, b) == IF a <= b THEN a ELSE b

Max(a, b) == IF a >= b THEN a ELSE b

\* The largest and the smallest element of a set of integers that is not
\* empty.
MaxOf(S) == CHOOSE i \in S : \A j \in S : j <= i

MinOf(S) == CHOOSE i \in S : \A j \in S : i <= j

\* The powers 2^0 .. 2^LimbBits
Pow2Table ==
  << 1, 2, 4, 8, 16, 32, 64, 128, 256, 512, 1024, 2048, 4096, 8192,
     16384, 32768, 65536, 131072, 262144, 524288, 1048576, 2097152,
     4194304, 8388608, 16777216 >>

\* 2^k, for 0 <= k <= LimbBits
Pow2(k) == Pow2Table[k + 1]

\* The limbs n without the zero limbs at its end.
BigTrim(n) ==
  IF n = << >> \/ n[Len(n)] # 0 THEN n
  ELSE IF \A i \in 1..Len(n) : n[i] = 0 THEN << >>
  ELSE SubSeq(n, 1, MaxOf({i \in 1..Len(n) : n[i] # 0}))

\* The limbs v and then those of the record hi, with the carry of hi.
LimbsJoin(v, hi) == [v |-> v \o hi.v, c |-> hi.c]

\* n * k + c in Len(n) limbs v and a carry c out of them, for k <= 64 and
\* c < Base: the lower half of the limbs, then the upper half with the
\* carry of the lower.
RECURSIVE MulAddLimbs(_, _, _)
RECURSIVE MulAddUpper(_, _, _)
MulAddLimbs(n, k, c) ==
  IF n = << >> THEN [v |-> << >>, c |-> c]
  ELSE IF Len(n) = 1
    THEN [v |-> << (n[1] * k + c) % Base >>, c |-> (n[1] * k + c) \div Base]
  ELSE MulAddUpper(MulAddLimbs(SubSeq(n, 1, Len(n) \div 2), k, c),
                   SubSeq(n, (Len(n) \div 2) + 1, Len(n)), k)

MulAddUpper(lo, upper, k) == LimbsJoin(lo.v, MulAddLimbs(upper, k, lo.c))

\* n * k + c, for 1 <= k <= 64 and 0 <= c < Base
BigMulAdd(n, k, c) ==
  LET r == MulAddLimbs(n, k, c)
  IN  IF r.c = 0 THEN r.v ELSE Append(r.v, r.c)

\* a - b - c in Len(a) limbs v and a borrow c out of them, for b of the
\* length of a and c at most 1.
RECURSIVE SubLimbs(_, _, _)
RECURSIVE SubUpper(_, _, _)
SubLimbs(a, b, c) ==
  IF a = << >> THEN [v |-> << >>, c |-> c]
  ELSE IF Len(a) = 1
    THEN [v |-> << (a[1] - b[1] - c + Base) % Base >>,
          c |-> IF a[1] - b[1] - c < 0 THEN 1 ELSE 0]
  ELSE SubUpper(SubLimbs(SubSeq(a, 1, Len(a) \div 2),
                         SubSeq(b, 1, Len(a) \div 2), c),
                SubSeq(a, (Len(a) \div 2) + 1, Len(a)),
                SubSeq(b, (Len(a) \div 2) + 1, Len(a)))

SubUpper(lo, a, b) == LimbsJoin(lo.v, SubLimbs(a, b, lo.c))

\* a - b, for a >= b
BigSub(a, b) ==
  BigTrim(SubLimbs(a, b \o [i \in 1..(Len(a) - Len(b)) |-> 0], 0).v)

\* a + b + c in Len(a) limbs v and a carry c out of them, for b of the
\* length of a and c at most 1.
RECURSIVE AddLimbs(_, _, _)
RECURSIVE AddUpper(_, _, _)
AddLimbs(a, b, c) ==
  IF a = << >> THEN [v |-> << >>, c |-> c]
  ELSE IF Len(a) = 1
    THEN [v |-> << (a[1] + b[1] + c) % Base >>, c |-> (a[1] + b[1] + c) \div Base]
  ELSE AddUpper(AddLimbs(SubSeq(a, 1, Len(a) \div 2),
                         SubSeq(b, 1, Len(a) \div 2), c),
                SubSeq(a, (Len(a) \div 2) + 1, Len(a)),
                SubSeq(b, (Len(a) \div 2) + 1, Len(a)))

AddUpper(lo, a, b) == LimbsJoin(lo.v, AddLimbs(a, b, lo.c))

\* a + b
BigAdd(a, b) ==
  LET r == AddLimbs(a \o [i \in 1..Max(Len(b) - Len(a), 0) |-> 0],
                    b \o [i \in 1..Max(Len(a) - Len(b), 0) |-> 0], 0)
  IN  IF r.c = 0 THEN r.v ELSE Append(r.v, r.c)

\* The natural number k, an integer below Base * Base, in limbs.
IntToBig(k) == BigTrim(<< k % Base, k \div Base >>)

\* The natural number n as an integer when it is below Base, and Base for
\* every larger n.
BigToInt(n) == IF n = << >> THEN 0 ELSE IF Len(n) = 1 THEN n[1] ELSE Base

\* a + b, for a and b that have no binary digit 1 in the same place
BigAddDisjoint(a, b) ==
  [i \in 1..Max(Len(a), Len(b)) |->
     (IF i <= Len(a) THEN a[i] ELSE 0) + (IF i <= Len(b) THEN b[i] ELSE 0)]

\* n * 2^r, for 0 <= r < LimbBits: every limb takes the low binary digits
\* of its own place and the high ones of the limb below.
BigShlBits(n, r) ==
  BigTrim([i \in 1..(Len(n) + 1) |->
             (IF i <= Len(n) THEN (n[i] % Pow2(LimbBits - r)) * Pow2(r) ELSE 0)
           + (IF i > 1 THEN n[i - 1] \div Pow2(LimbBits - r) ELSE 0)])

\* n * 2^k
BigShl(n, k) ==
  IF n = << >> \/ k <= 0 THEN n
  ELSE [i \in 1..(k \div LimbBits) |-> 0] \o BigShlBits(n, k % LimbBits)

\* n \div 2^r, for 0 <= r < LimbBits
BigShrBits(n, r) ==
  BigTrim([i \in 1..Len(n) |->
             (n[i] \div Pow2(r))
           + (IF i < Len(n) THEN (n[i + 1] % Pow2(r)) * Pow2(LimbBits - r) ELSE 0)])

\* n \div 2^k
BigShr(n, k) ==
  IF k \div LimbBits >= Len(n) THEN << >>
  ELSE BigShrBits(SubSeq(n, (k \div LimbBits) + 1, Len(n)), k % LimbBits)

\* -1, 0 or 1 as a is below, equal to or above b: the longer number is the
\* larger, and of two of one length the one larger in the highest limb in
\* which they differ.
BigCompare(a, b) ==
  IF Len(a) # Len(b) THEN (IF Len(a) < Len(b) THEN -1 ELSE 1)
  ELSE IF a = b THEN 0
  ELSE LET top == MaxOf({i \in 1..Len(a) : a[i] # b[i]})
       IN  IF a[top] < b[top] THEN -1 ELSE 1

\* The number of binary digits of the limb x.
RECURSIVE IntBitLen(_)
IntBitLen(x) == IF x = 0 THEN 0 ELSE 1 + IntBitLen(x \div 2)

\* The number of binary digits of n (0 for 0).
BigBitLen(n) ==
  IF n = << >> THEN 0 ELSE LimbBits * (Len(n) - 1) + IntBitLen(n[Len(n)])

\* The number of zeros the limb x # 0 ends with in base 2.
RECURSIVE IntTrailingZeros(_)
IntTrailingZeros(x) == IF x % 2 = 1 THEN 0 ELSE 1 + IntTrailingZeros(x \div 2)

\* The number of zeros n # 0 ends with in base 2.
BigTrailingZeros(n) ==
  LET low == MinOf({i \in 1..Len(n) : n[i] # 0})
  IN  LimbBits * (low - 1) + IntTrailingZeros(n[low])

\* n * 10^k: one factor 10, or one half of the factors and then the other.
RECURSIVE BigTimesPow10(_, _)
RECURSIVE BigTimesPow10Rest(_, _)
BigTimesPow10(n, k) ==
  IF k <= 0 THEN n
  ELSE IF k = 1 THEN BigMulAdd(n, 10, 0)
  ELSE BigTimesPow10Rest(BigTimesPow10(n, k \div 2), k - (k \div 2))

\* The same for the factors left, after the number the first half made.
BigTimesPow10Rest(half, k) ==
  IF half = << >> THEN << >> ELSE BigTimesPow10(half, k)

\* The quotient up.q * 2^(mid-lo) + low.q and the remainder of low.
BigDivJoin(upq, low) == [q |-> BigAddDisjoint(upq, low.q), r |-> low.r]

\* Long division in base 2, the binary digits lo .. hi-1 of the quotient:
\* q and r with num = q * (den * 2^lo) + r and r < den * 2^lo, for
\* num < den * 2^hi.  One digit is a comparison and a subtraction; more
\* are the upper half of the digits and then, on the remainder of those,
\* the lower half.
RECURSIVE BigDivBits(_, _, _, _)
RECURSIVE BigDivLower(_, _, _, _)
BigDivBits(num, den, lo, hi) ==
  IF hi - lo <= 1
    THEN IF BigCompare(BigShl(den, lo), num) <= 0
           THEN [q |-> << 1 >>, r |-> BigSub(num, BigShl(den, lo))]
           ELSE [q |-> << >>, r |-> num]
    ELSE BigDivLower(BigDivBits(num, den, (lo + hi) \div 2, hi),
                     den, lo, (lo + hi) \div 2)

BigDivLower(up, den, lo, mid) ==
  IF up.q = << >>
    THEN BigDivBits(up.r, den, lo, mid)
    ELSE BigDivJoin(BigShl(up.q, mid - lo), BigDivBits(up.r, den, lo, mid))

\* q and r with num = q * den + r and r < den, for num < den * 2^55
BigDivMod(num, den) == BigDivBits(num, den, 0, 55)

(***************************************************************************)
(* Numbers of the host language: IEEE 754 binary64.  A finite number is    *)
(* m * 2^e, negated when neg, with m an odd natural number below 2^53 and  *)
(* m * 2^e a multiple of 2^-1074 below 2^1024, or it is one of the zeros   *)
(* 0 and -0 (m = << >>, e = 0).  The two infinities and NaN are values of  *)
(* their own.                                                              *)
(***************************************************************************)

NaN == [kind |-> "NaN", neg |-> FALSE, m |-> << >>, e |-> 0]

Finite(neg, m, e) == [kind |-> "finite", neg |-> neg, m |-> m, e |-> e]

Zero(negative) == Finite(negative, << >>, 0)

Infinite(negative) ==
  [kind |-> "infinite", neg |-> negative, m |-> << >>, e |-> 0]

\* The finite number m * 2^e (m # 0), its significand made odd.
OddForm(neg, m, e) ==
  IF m[1] % 2 = 1 THEN Finite(neg, m, e)
  ELSE LET zeros == BigTrailingZeros(m)
       IN  Finite(neg, BigShr(m, zeros), e + zeros)

\* The numerator and the denominator of (N / Den) / 2^e
ScaledNum(N, e) == IF e < 0 THEN BigShl(N, 0 - e) ELSE N

ScaledDen(Den, e) == IF e > 0 THEN BigShl(Den, e) ELSE Den

\* N / (Den * 2^e) as a quotient and a remainder (the quotient is below
\* 2^55 for the exponents BinaryExponent tries).
QuotientAt(N, Den, e) == BigDivMod(ScaledNum(N, e), ScaledDen(Den, e))

\* The exponent of the unit in the last place of the double nearest to
\* N / Den: the e for which N / (Den * 2^e) has 53 binary digits before
\* the point, and -1074 (the subnormal numbers) when that e is below it.
BinaryExponent(N, Den) ==
  LET e0 == Max(BigBitLen(N) - BigBitLen(Den) - 53, -1074)
  IN  IF BigBitLen(QuotientAt(N, Den, e0).q) > 53 THEN e0 + 1 ELSE e0

\* A quotient rounded to the nearest integer, a tie to the even one.
RoundHalfEven(d, den) ==
  LET c == BigCompare(BigMulAdd(d.r, 2, 0), den)
  IN  IF c > 0 \/ (c = 0 /\ d.q # << >> /\ d.q[1] % 2 = 1)
        THEN BigMulAdd(d.q, 1, 1)
        ELSE d.q

\* N / (Den * 2^e) rounded to an integer
Significand(N, Den, e) == RoundHalfEven(QuotientAt(N, Den, e), ScaledDen(Den, e))

\* m * 2^e as a number: an infinity from 2^1024 on.
RoundedDouble(neg, m, e) ==
  IF m = << >> THEN Zero(neg)
  ELSE IF e + BigBitLen(m) > 1024 THEN Infinite(neg)
  ELSE OddForm(neg, m, e)

\* The multiple of 2^e nearest to N / Den, as a number.
NearestAt(N, Den, e, neg) == RoundedDouble(neg, Significand(N, Den, e), e)

\* The number the host makes of the rational N / Den (Den # 0): the nearest
\* double, a tie going to the one with an even significand.  A natural
\* number of at most 53 binary digits is a double as it stands.
RatioToDouble(N, Den, neg) ==
  IF N = << >> THEN Zero(neg)
  ELSE IF Den = << 1 >> /\ BigBitLen(N) <= 53 THEN OddForm(neg, N, 0)
  ELSE NearestAt(N, Den, BinaryExponent(N, Den), neg)

\* 0 for the numbers 0 and -0, which are equal under < and >, else -1 or 1
\* as x (not NaN) is negative or positive.
Sign(x) ==
  IF x.kind = "finite" /\ x.m = << >> THEN 0 ELSE IF x.neg THEN -1 ELSE 1

\* |x| < |y|, for x and y neither NaN nor 0
MagnitudeLess(x, y) ==
  IF x.kind = "infinite" THEN FALSE
  ELSE IF y.kind = "infinite" THEN TRUE
  ELSE IF x.e = y.e THEN BigCompare(x.m, y.m) < 0
  ELSE LET xBits == x.e + BigBitLen(x.m)
           yBits == y.e + BigBitLen(y.m)
       IN  IF xBits # yBits THEN xBits < yBits
           ELSE BigCompare(BigShl(x.m, x.e - Min(x.e, y.e)),
                           BigShl(y.m, y.e - Min(x.e, y.e))) < 0

\* The host's x < y on two numbers: false as soon as one of them is NaN,
\* and for a number against itself.
NumberLess(x, y) ==
  IF x.kind = "NaN" \/ y.kind = "NaN" \/ x = y THEN FALSE
  ELSE IF Sign(x) # Sign(y) THEN Sign(x) < Sign(y)
  ELSE IF Sign(x) = 0 THEN FALSE
  ELSE IF Sign(x) > 0 THEN MagnitudeLess(x, y)
  ELSE MagnitudeLess(y, x)

\* The value of a digit in radix 16 (also used for radix 10, 8 and 2), or
\* 16 for a character that is no digit.
DigitValue(c) ==
  IF c \in Digits THEN CodeUnit[c] - 48
  ELSE IF CodeUnit[c] >= 97 /\ CodeUnit[c] <= 102 THEN CodeUnit[c] - 87
  ELSE IF CodeUnit[c] >= 65 /\ CodeUnit[c] <= 70 THEN CodeUnit[c] - 55
  ELSE 16

\* The index after the run of decimal digits of s that starts at i.
DigitsEnd(s, i) ==
  IF i > Len(s) THEN i
  ELSE MinOf({j \in i..(Len(s) + 1) : j > Len(s) \/ s[j] \notin Digits})

\* n * radix^Len(s) + the natural number written by the digits of s in
\* the given radix (s holds only digits of that radix), one digit at a
\* time, the digits taken in two halves.
RECURSIVE DigitsAppend(_, _, _)
RECURSIVE DigitsAppendRest(_, _, _)
DigitsAppend(n, s, radix) ==
  IF s = << >> THEN n
  ELSE IF Len(s) = 1 THEN BigMulAdd(n, radix, DigitValue(s[1]))
  ELSE DigitsAppendRest(DigitsAppend(n, SubSeq(s, 1, Len(s) \div 2), radix),
                        SubSeq(s, (Len(s) \div 2) + 1, Len(s)), radix)

\* The same for the second half of the digits, after the number left the
\* first half made.
DigitsAppendRest(left, s, radix) ==
  IF left = << >> THEN DigitsAppend(<< >>, s, radix) ELSE DigitsAppend(left, s, radix)

\* The natural number written by the digits of s in the given radix.
DigitsNumber(s, radix) == DigitsAppend(<< >>, s, radix)

\* The decimal exponent written by the digits of s, a natural number of
\* any size.
ExponentNumber(s) == DigitsNumber(s, 10)

\* The digits ds from the first to the last one that is not 0.
SignificantDigits(ds) ==
  IF ds # << >> /\ ds[1] # "0" /\ ds[Len(ds)] # "0" THEN ds
  ELSE IF \A i \in 1..Len(ds) : ds[i] = "0" THEN << >>
  ELSE SubSeq(ds, MinOf({i \in 1..Len(ds) : ds[i] # "0"}),
                  MaxOf({i \in 1..Len(ds) : ds[i] # "0"}))

\* The number of zeros after the last digit of ds that is not 0.
TrailingZeros(ds) ==
  IF ds # << >> /\ ds[Len(ds)] # "0" THEN 0
  ELSE IF \A i \in 1..Len(ds) : ds[i] = "0" THEN 0
  ELSE Len(ds) - MaxOf({i \in 1..Len(ds) : ds[i] # "0"})

\* The number of sig * 10^ex, the rounded ratio of two natural numbers.
ScaledToDouble(sig, ex, negative) ==
  RatioToDouble(
    IF ex >= 0 THEN BigTimesPow10(DigitsNumber(sig, 10), ex) ELSE DigitsNumber(sig, 10),
    IF ex >= 0 THEN << 1 >> ELSE BigTimesPow10(<< 1 >>, 0 - ex),
    negative)

\* up - down for natural numbers up and down of any size, exact between
\* -Base and Base; every difference beyond is read as Base or -Base.
DecimalPosition(up, down) ==
  IF BigCompare(up, down) >= 0
    THEN BigToInt(BigSub(up, down))
    ELSE 0 - BigToInt(BigSub(down, up))

\* The number of 0.sig * 10^p, for digits sig that neither start nor end
\* with 0.  The number is at least 10^(p-1) and below 10^p: with p above
\* 310 it is an infinity and with p below -330 it is 0 without any
\* arithmetic; in between it is the rounded ratio.
SignificantToDouble(sig, p, negative) ==
  IF sig = << >> THEN Zero(negative)
  ELSE IF p > 310 THEN Infinite(negative)
  ELSE IF p < -330 THEN Zero(negative)
  ELSE ScaledToDouble(sig, p - Len(sig), negative)

\* The number of the digits sig followed by zeros digits 0, the last
\* fraction of all these after the point, times 10 to the exponent: the
\* exponent as written (its sign neg and its size n) counts up or down,
\* every digit counts up and every digit of the fraction down.
DigitsToDouble(sig, zeros, exponent, fraction, negative) ==
  SignificantToDouble(
    sig,
    DecimalPosition(
      BigAdd(IF exponent.neg THEN << >> ELSE exponent.n, IntToBig(Len(sig) + zeros)),
      BigAdd(IF exponent.neg THEN exponent.n ELSE << >>, IntToBig(fraction))),
    negative)

\* The number of the decimal digits ds, the last fraction of them after
\* the point, times 10 to the exponent.
DecimalToDouble(ds, exponent, fraction, negative) ==
  DigitsToDouble(SignificantDigits(ds), TrailingZeros(ds), exponent, fraction,
                 negative)

InfinityText == << "I", "n", "f", "i", "n", "i", "t", "y" >>

\* The index after the mantissa (digits, or digits with a fraction, or a
\* fraction alone) that starts at p, the digits before the point ending
\* before intEnd; p when no mantissa starts there.
MantissaEnd(s, p, intEnd) ==
  IF intEnd <= Len(s) /\ s[intEnd] = "."
    THEN IF intEnd > p \/ DigitsEnd(s, intEnd + 1) > intEnd + 1
           THEN DigitsEnd(s, intEnd + 1)
           ELSE p
    ELSE intEnd

\* The number of digits after the point of that mantissa.
FractionLength(intEnd, mantEnd) ==
  IF mantEnd > intEnd + 1 THEN mantEnd - intEnd - 1 ELSE 0

\* The index of the first digit of an exponent whose letter is at mantEnd.
ExponentStart(s, mantEnd) ==
  IF mantEnd + 1 <= Len(s) /\ s[mantEnd + 1] \in {"+", "-"}
    THEN mantEnd + 2
    ELSE mantEnd + 1

\* An exponent part follows the mantissa: e or E, an optional sign and at
\* least one digit.
HasExponent(s, mantEnd) ==
  /\ mantEnd <= Len(s)
  /\ s[mantEnd] \in {"e", "E"}
  /\ DigitsEnd(s, ExponentStart(s, mantEnd)) > ExponentStart(s, mantEnd)

\* The index after the literal whose mantissa ends before mantEnd.
LiteralEnd(s, mantEnd) ==
  IF HasExponent(s, mantEnd)
    THEN DigitsEnd(s, ExponentStart(s, mantEnd))
    ELSE mantEnd

\* The exponent the literal writes, 0 when it writes none: its size n and
\* whether it is written with a minus sign.
ExponentValue(s, mantEnd) ==
  IF ~HasExponent(s, mantEnd) THEN [neg |-> FALSE, n |-> << >>]
  ELSE [neg |-> s[mantEnd + 1] = "-",
        n   |-> ExponentNumber(SubSeq(s, ExponentStart(s, mantEnd),
                                      LiteralEnd(s, mantEnd) - 1))]

\* The digits of the mantissa s[p .. mantEnd-1], its point left out.
MantissaDigits(s, p, mantEnd) ==
  SelectSeq(SubSeq(s, p, mantEnd - 1), LAMBDA c : c \in Digits)

\* The literal that starts at p, after the sign.
UnsignedDecimalLiteral(s, p, negative) ==
  LET intEnd  == DigitsEnd(s, p)
      mantEnd == MantissaEnd(s, p, intEnd)
  IN  IF SubSeq(s, p, Min(Len(s), p + 7)) = InfinityText
        THEN [len |-> p + 7, val |-> Infinite(negative)]
      ELSE IF mantEnd = p
        THEN [len |-> 0, val |-> NaN]
      ELSE [len |-> LiteralEnd(s, mantEnd) - 1,
            val |-> DecimalToDouble(MantissaDigits(s, p, mantEnd),
                                    ExponentValue(s, mantEnd),
                                    FractionLength(intEnd, mantEnd),
                                    negative)]

\* The longest prefix of s that is a StrDecimalLiteral (an optional sign,
\* then Infinity or digits with an optional fraction and exponent):
\* len is its length (0 when s starts with none) and val its value.
StrDecimalLiteral(s) ==
  IF s # << >> /\ s[1] \in {"+", "-"}
    THEN UnsignedDecimalLiteral(s, 2, s[1] = "-")
    ELSE UnsignedDecimalLiteral(s, 1, FALSE)

\* The radix of a NonDecimalIntegerLiteral prefix 0x, 0o, 0b (either case),
\* or 0 when s has none.
NonDecimalRadix(s) ==
  IF Len(s) < 3 \/ s[1] # "0" THEN 0
  ELSE IF s[2] \in {"x", "X"} THEN 16
  ELSE IF s[2] \in {"o", "O"} THEN 8
  ELSE IF s[2] \in {"b", "B"} THEN 2
  ELSE 0

\* Number(s), the conversion isNaN and the relational operators apply to a
\* string: white space stripped, the empty string is 0, the whole rest
\* must be one numeric literal.
StringToNumber(s) ==
  LET t     == trim(s)
      radix == NonDecimalRadix(t)
      lit   == StrDecimalLiteral(t)
  IN  IF t = << >> THEN Zero(FALSE)
      ELSE IF radix # 0
        THEN IF \A i \in 3..Len(t) : DigitValue(t[i]) < radix
               THEN RatioToDouble(DigitsNumber(SubSeq(t, 3, Len(t)), radix), << 1 >>, FALSE)
               ELSE NaN
      ELSE IF lit.len = Len(t) THEN lit.val
      ELSE NaN

\* isNaN(s) on a string
isNaN(s) == StringToNumber(s).kind = "NaN"

\* parseFloat(s): the value of the longest decimal literal that starts s
\* after leading white space, NaN when there is none.
parseFloat(s) ==
  LET lit == StrDecimalLiteral(trimStart(s))
  IN  IF lit.len = 0 THEN NaN ELSE lit.val

(***************************************************************************)
(* The document                                                            *)
(***************************************************************************)

\* The rows a table body is built from: the texts of the cells of a row, in
\* column order, and its class list.  The cells hold numbers (with white
\* space around them, with a fraction, an exponent, a radix prefix), words
\* in both cases and an empty cell, and the last row has fewer cells than
\* the table has headers.  A table of NumCols columns shows the first
\* NumCols cells of each row.
RowMarkup ==
  << [cells |-> << << "1", "0" >>,
                   << "a", "p", "p", "l", "e" >>,
                   << "0", "x", "1", "F" >> >>,
      class |-> {}],
     [cells |-> << << " ", "9", "\n" >>,
                   << "B", "a", "n", "a", "n", "a" >>,
                   << "-", "1", ".", "5", "e", "1" >> >>,
      class |-> {"error"}],
     [cells |-> << << "2" >>,
                   << "A", "p", "p", "l", "e" >>,
                   << "I", "n", "f", "i", "n", "i", "t", "y" >> >>,
      class |-> {"hidden"}],
     [cells |-> << << "n", "/", "a" >>,
                   << >>,
                   << "-", "1", "5", ".", "0" >> >>,
      class |-> {"error", "hidden"}],
     [cells |-> << << "7" >> >>,
      class |-> {}] >>

Cols == 1..NumCols

SortClasses == {"sorted-asc", "sorted-desc"}

VARIABLES
  tbodyRows,  \* tbody.rows: the rows of the body, in document order
  cells,      \* cells[r][c]: the textContent of cell c of row r (c from 1)
  rowClass,   \* rowClass[r]: the classList of row r
  thClass,    \* thClass[c]: the classList of the header of column c
  checked,    \* filterCheckbox.checked
  event       \* the listener that ran last: its arguments, the headers it
              \* took a sort class from, and whether it ended by a throw

vars == << tbodyRows, cells, rowClass, thClass, checked, event >>

\* The rows of the table, numbered in the order the document was loaded
\* with.
Rows == DOMAIN cells

\* The cells a table of NumCols columns shows of a row of RowMarkup.
shownCells(k) ==
  SubSeq(RowMarkup[k].cells, 1, Min(NumCols, Len(RowMarkup[k].cells)))

\* The row has one cell per header.
WellFormed(k) == Len(RowMarkup[k].cells) >= NumCols

\* The document once loaded, the listeners registered and none run yet: a
\* body of one row per entry of markup, row r built from
\* RowMarkup[markup[r]], no header marked and the checkbox unchecked.
Document(markup) ==
  /\ tbodyRows = [i \in DOMAIN markup |-> i]
  /\ cells = [r \in DOMAIN markup |-> shownCells(markup[r])]
  /\ rowClass = [r \in DOMAIN markup |-> RowMarkup[markup[r]].class]
  /\ thClass = [c \in Cols |-> {}]
  /\ checked = FALSE
  /\ event = [type |-> "DOMContentLoaded", colIndex |-> 0, direction |-> 0,
              cleared |-> {}, threw |-> FALSE]

\* A table of NumRows rows that all have one cell per header, the
\* structure the listeners are written for.
Init ==
  \E markup \in [1..NumRows -> {k \in 1..Len(RowMarkup) : WellFormed(k)}] :
    Document(markup)

\* Any table of NumRows rows, rows with too few cells included.
InitMalformed ==
  \E markup \in [1..NumRows -> 1..Len(RowMarkup)] : Document(markup)

\* The rows of RowMarkup a long table is built from, the first, the third
\* and the fourth: two numbers and a word in the first column (10, 2 and
\* n/a), two spellings of a word and an empty cell in the second.
LongMarkup == {1, 3, 4}

\* A table of LongRows rows that all have one cell per header.
InitLong ==
  \E markup \in [1..LongRows -> LongMarkup] : Document(markup)

(***************************************************************************)
(* sortTable                                                               *)
(***************************************************************************)

\* row.cells[colIndex].textContent.trim(), colIndex counted from 1
cellText(row, colIndex) == trim(cells[row][colIndex])

\* The value the comparator derives from a cell text: the lower-cased text
\* when isNaN says the text is no number, what parseFloat reads otherwise.
DerivedValue(text) ==
  IF isNaN(text)
    THEN [type |-> "string", s |-> toLowerCase(text), n |-> NaN]
    ELSE [type |-> "number", s |-> << >>, n |-> parseFloat(text)]

\* The trimmed texts of the cells of RowMarkup and, as pairs of a text and
\* its value, what DerivedValue makes of each.  The derivation is a function
\* of the text alone, so the table holds what the comparator computes on
\* every call, computed once.
MarkupTexts ==
  UNION {{trim(RowMarkup[k].cells[c]) : c \in 1..Len(RowMarkup[k].cells)} :
           k \in 1..Len(RowMarkup)}

MarkupValues == {<< t, DerivedValue(t) >> : t \in MarkupTexts}

\* DerivedValue(text), read from the table for a text of RowMarkup.
DerivedValueOf(text) ==
  IF text \in MarkupTexts
    THEN (CHOOSE p \in MarkupValues : p[1] = text)[2]
    ELSE DerivedValue(text)

\* ToNumber of a derived value
ToNumber(v) == IF v.type = "string" THEN StringToNumber(v.s) ELSE v.n

\* The host's x < y: two strings compare as strings, any other pair as the
\* numbers ToNumber makes of them.
Less(x, y) ==
  IF x.type = "string" /\ y.type = "string"
    THEN StringLess(x.s, y.s)
    ELSE NumberLess(ToNumber(x), ToNumber(y))

\* The host's x > y
Greater(x, y) == Less(y, x)

\* The comparator handed to rows.sort
comparator(a, b, colIndex, direction) ==
  LET aValue == DerivedValueOf(cellText(a, colIndex))
      bValue == DerivedValueOf(cellText(b, colIndex))
  IN  IF Greater(aValue, bValue) THEN direction
      ELSE IF Less(aValue, bValue) THEN 0 - direction
      ELSE 0

\* The comparator throws a TypeError when a row has no cell at colIndex
\* (a.cells[colIndex] is undefined).  Array.prototype.sort calls it as soon
\* as the list has two elements, and on every element of the list.
comparatorThrows(list, colIndex) ==
  /\ Len(list) >= 2
  /\ \E i \in 1..Len(list) : Len(cells[list[i]]) < colIndex

(***************************************************************************)
(* Array.prototype.sort.  The standard fixes the result when the           *)
(* comparator is consistent (the sort is stable); when it is not, the      *)
(* order is the engine's.  Two engines are modelled, as each sorts an      *)
(* array of fewer than 24 elements: V8 (the run at the start, then binary  *)
(* insertion) and SpiderMonkey (straight insertion); cmp[x][y] is the      *)
(* comparator's answer for the pair (x, y).                                *)
(***************************************************************************)

Engines == {"binary-insertion", "insertion"}

Reverse(a) == [i \in 1..Len(a) |-> a[Len(a) + 1 - i]]

\* The length of the run that starts the array: non-descending, or strictly
\* descending (isDescending), extended from index idx on.
RECURSIVE RunEnd(_, _, _, _)
RunEnd(a, cmp, idx, isDescending) ==
  IF idx > Len(a) THEN Len(a)
  ELSE LET order == cmp[a[idx]][a[idx - 1]]
       IN  IF (isDescending /\ order >= 0) \/ (~isDescending /\ order < 0)
             THEN idx - 1
             ELSE RunEnd(a, cmp, idx + 1, isDescending)

\* The place of pivot among a[left+1 .. right] by binary search: the number
\* of elements that stay before it.
RECURSIVE BinarySearch(_, _, _, _, _)
BinarySearch(a, cmp, pivot, left, right) ==
  IF left >= right THEN left
  ELSE LET mid == left + ((right - left) \div 2)
       IN  IF cmp[pivot][a[mid + 1]] < 0
             THEN BinarySearch(a, cmp, pivot, left, mid)
             ELSE BinarySearch(a, cmp, pivot, mid + 1, right)

\* Binary insertion of the elements from index start on into the sorted
\* prefix before them.
RECURSIVE BinaryInsertionSort(_, _, _)
BinaryInsertionSort(a, cmp, start) ==
  IF start > Len(a) THEN a
  ELSE LET pivot == a[start]
           left  == BinarySearch(a, cmp, pivot, 0, start - 1)
           moved == SubSeq(a, 1, left) \o << pivot >>
                    \o SubSeq(a, left + 1, start - 1)
                    \o SubSeq(a, start + 1, Len(a))
       IN  BinaryInsertionSort(moved, cmp, start + 1)

\* An engine that finds the run the array starts with (reversing it when it
\* descends) and inserts the other elements by binary search.
TimSort(a, cmp) ==
  IF Len(a) < 2 THEN a
  ELSE LET isDescending == cmp[a[2]][a[1]] < 0
           runLength    == RunEnd(a, cmp, 3, isDescending)
           run          == SubSeq(a, 1, runLength)
           made         == (IF isDescending THEN Reverse(run) ELSE run)
                           \o SubSeq(a, runLength + 1, Len(a))
       IN  BinaryInsertionSort(made, cmp, runLength + 1)

\* The place of item among a[1 .. j]: it moves left past every element the
\* comparator puts after it.
RECURSIVE InsertionPlace(_, _, _, _)
InsertionPlace(a, cmp, item, j) ==
  IF j >= 1 /\ cmp[a[j]][item] > 0 THEN InsertionPlace(a, cmp, item, j - 1) ELSE j

\* An engine that sorts by straight insertion.
RECURSIVE InsertionSort(_, _, _)
InsertionSort(a, cmp, i) ==
  IF i > Len(a) THEN a
  ELSE LET item  == a[i]
           j     == InsertionPlace(a, cmp, item, i - 1)
           moved == SubSeq(a, 1, j) \o << item >>
                    \o SubSeq(a, j + 1, i - 1)
                    \o SubSeq(a, i + 1, Len(a))
       IN  InsertionSort(moved, cmp, i + 1)

\* rows.sort(comparator) on the engine
ArraySort(engine, a, cmp) ==
  IF engine = "binary-insertion" THEN TimSort(a, cmp) ELSE InsertionSort(a, cmp, 2)

\* appendChild that adds a copy of the row and leaves the row in its place.
appendChildCopy(body, row) == body \o << row >>

\* tbody.appendChild(row): the row leaves its place and becomes the last
\* child of the body.
appendChild(body, row) == SelectSeq(body, LAMBDA r : r # row) \o << row >>

\* rows.forEach(row => tbody.appendChild(row))
RECURSIVE appendAll(_, _)
appendAll(body, list) ==
  IF list = << >> THEN body
  ELSE appendAll(appendChild(body, Head(list)), Tail(list))

\* The headers with only 'sorted-asc' removed.
clearSortClassesAscOnly(classes) == [c \in Cols |-> classes[c] \ {"sorted-asc"}]

\* th.classList.remove('sorted-asc', 'sorted-desc') on every header
clearSortClasses(classes) == [c \in Cols |-> classes[c] \ SortClasses]

\* The clicked header always receives 'sorted-asc'.
newSortClassAlwaysAsc(isAscending) == "sorted-asc"

\* The class the clicked header receives
newSortClass(isAscending) == IF isAscending THEN "sorted-desc" ELSE "sorted-asc"

\* A click on the header of column colIndex (counted from 1).  When the
\* comparator throws, the listener ends there: the headers are cleared
\* already, the body and the clicked header are left as they are.
sortTable(colIndex) ==
  LET rows        == tbodyRows
      isAscending == "sorted-asc" \in thClass[colIndex]
      direction   == IF isAscending THEN -1 ELSE 1
      cleared     == clearSortClasses(thClass)
      marked      == {c \in Cols : thClass[c] # cleared[c]}
      cmp         == [a \in Rows |-> [b \in Rows |->
                        comparator(a, b, colIndex, direction)]]
  IN  /\ UNCHANGED << cells, rowClass, checked >>
      /\ IF comparatorThrows(rows, colIndex)
           THEN /\ thClass' = cleared
                /\ tbodyRows' = tbodyRows
                /\ event' = [type |-> "click", colIndex |-> colIndex,
                             direction |-> direction, cleared |-> marked,
                             threw |-> TRUE]
           ELSE \E engine \in Engines :
                  /\ tbodyRows' = appendAll(tbodyRows, ArraySort(engine, rows, cmp))
                  /\ thClass' = [cleared EXCEPT ![colIndex] =
                                   @ \cup {newSortClass(isAscending)}]
                  /\ event' = [type |-> "click", colIndex |-> colIndex,
                               direction |-> direction, cleared |-> marked,
                               threw |-> FALSE]

(***************************************************************************)
(* The filter checkbox                                                     *)
(***************************************************************************)

\* classList.toggle(token, force)
toggle(classes, token, force) ==
  IF force THEN classes \cup {token} ELSE classes \ {token}

\* filterRow that hides the rows without the error class and never shows a
\* hidden row with it (classList.add in place of toggle with force).
filterRowAddOnly(classes, isChecked) ==
  IF isChecked
    THEN IF "error" \in classes THEN classes ELSE classes \cup {"hidden"}
    ELSE classes \ {"hidden"}

\* filterRow that flips the hidden class of every row when the checkbox is
\* unchecked (classList.toggle in place of remove).
filterRowFlip(classes, isChecked) ==
  IF isChecked
    THEN toggle(classes, "hidden", ~("error" \in classes))
    ELSE toggle(classes, "hidden", ~("hidden" \in classes))

\* The class list of a row after the change listener visited it
filterRow(classes, isChecked) ==
  IF isChecked
    THEN toggle(classes, "hidden", ~("error" \in classes))
    ELSE classes \ {"hidden"}

\* A change listener that also moves the rows it hides behind the rows it
\* shows.
toggleErrorFilterReorders(isChecked) ==
  LET classes == [r \in Rows |-> filterRow(rowClass[r], isChecked)]
  IN  /\ checked' = isChecked
      /\ rowClass' = classes
      /\ tbodyRows' = SelectSeq(tbodyRows, LAMBDA r : ~("hidden" \in classes[r]))
                      \o SelectSeq(tbodyRows, LAMBDA r : "hidden" \in classes[r])
      /\ event' = [type |-> "change", colIndex |-> 0, direction |-> 0,
                   cleared |-> {}, threw |-> FALSE]
      /\ UNCHANGED << cells, thClass >>

\* The change listener of the checkbox, which the user has just set to
\* isChecked.
toggleErrorFilter(isChecked) ==
  /\ checked' = isChecked
  /\ rowClass' = [r \in Rows |->
                    IF \E i \in 1..Len(tbodyRows) : tbodyRows[i] = r
                      THEN filterRow(rowClass[r], isChecked)
                      ELSE rowClass[r]]
  /\ event' = [type |-> "change", colIndex |-> 0, direction |-> 0,
               cleared |-> {}, threw |-> FALSE]
  /\ UNCHANGED << tbodyRows, cells, thClass >>

Click == \E colIndex \in Cols : sortTable(colIndex)

Change == \E isChecked \in BOOLEAN : toggleErrorFilter(isChecked)

Next == Click \/ Change

Spec == Init /\ [][Next]_vars

SpecMalformed == InitMalformed /\ [][Next]_vars

SpecLong == InitLong /\ [][Next]_vars

(***************************************************************************)
(* Vocabulary of the properties                                            *)
(***************************************************************************)

Hidden(r) == "hidden" \in rowClass[r]

Error(r) == "error" \in rowClass[r]

Marked(c) == thClass[c] \cap SortClasses # {}

\* Row a stands before row b in the body.
Before(body, a, b) ==
  \E i, j \in 1..Len(body) : i < j /\ body[i] = a /\ body[j] = b

\* The body no longer has the order the document was loaded with.
Reordered == tbodyRows # [i \in Rows |-> i]

\* The row was loaded with the hidden class.
LoadedHidden(r) ==
  \E k \in 1..Len(RowMarkup) :
    cells[r] = shownCells(k) /\ "hidden" \in RowMarkup[k].class

\* Row r has a cell in column c.
HasCell(r, c) == Len(cells[r]) >= c

\* Two derived values are equal: the same lower-cased text, or two numbers
\* neither of which is below the other.
EqualValues(x, y) ==
  \/ x.type = "string" /\ y.type = "string" /\ x.s = y.s
  \/ /\ x.type = "number" /\ y.type = "number"
     /\ x.n.kind # "NaN" /\ y.n.kind # "NaN"
     /\ ~NumberLess(x.n, y.n) /\ ~NumberLess(y.n, x.n)

\* The derived values of two rows in column c are equal.
EqualDerived(a, b, c) ==
  EqualValues(DerivedValueOf(cellText(a, c)), DerivedValueOf(cellText(b, c)))

\* C1: after the change listener ran with the checkbox checked, a row of
\* the body is hidden if and only if it does not carry the error class.
C1_FilterOnHidesNonErrors ==
  (event.type = "change" /\ checked) =>
    \A i \in 1..Len(tbodyRows) :
      Hidden(tbodyRows[i]) <=> ~Error(tbodyRows[i])

\* C1 witness: the filter was switched on over a reordered body in which an
\* error row that was loaded hidden is shown and another row is hidden.
C1_Witness ==
  /\ event.type = "change" /\ checked /\ Reordered
  /\ \E r \in Rows : Error(r) /\ LoadedHidden(r) /\ ~Hidden(r)
  /\ \E r \in Rows : Hidden(r)

\* C2: after the change listener ran with the checkbox unchecked, no row of
\* the body is hidden, whatever its error class.
C2_FilterOffShowsAll ==
  (event.type = "change" /\ ~checked) =>
    \A i \in 1..Len(tbodyRows) : ~Hidden(tbodyRows[i])

\* C2 witness: the filter was switched off after a sort, over rows with and
\* without the error class, one of which was loaded hidden.
C2_Witness ==
  /\ event.type = "change" /\ ~checked /\ Reordered
  /\ \E c \in Cols : Marked(c)
  /\ \E r \in Rows : LoadedHidden(r) /\ ~Error(r)
  /\ \E r \in Rows : Error(r)

\* C3: a click on a header leaves it with the descending class alone when
\* it carried the ascending class before the click, and with the ascending
\* class alone otherwise (unmarked or descending); so a click never leaves
\* the clicked header unmarked and repeated clicks alternate.
C3_HeaderMarkerStep ==
  [][\A c \in Cols :
       (event'.type = "click" /\ event'.colIndex = c) =>
         thClass'[c] \cap SortClasses =
           (IF "sorted-asc" \in thClass[c] THEN {"sorted-desc"}
                                           ELSE {"sorted-asc"})]_vars

\* C3 witness: a click on a header that carried the descending class left
\* it with the ascending class.
C3_Witness ==
  /\ event.type = "click" /\ event.direction = 1
  /\ event.colIndex \in event.cleared
  /\ thClass[event.colIndex] = {"sorted-asc"}

\* C4: at most one header carries a sort class, and after a completed
\* click it is the clicked header, which carries exactly one of the two.
C4_SingleSortMarker ==
  /\ Cardinality({c \in Cols : Marked(c)}) <= 1
  /\ (event.type = "click" /\ ~event.threw) =>
       /\ Cardinality(thClass[event.colIndex] \cap SortClasses) = 1
       /\ \A c \in Cols \ {event.colIndex} : ~Marked(c)

\* C4 witness: a click on one header took the sort class from another.
C4_Witness ==
  /\ event.type = "click" /\ ~event.threw
  /\ \E c \in event.cleared : c # event.colIndex
  /\ Marked(event.colIndex)

\* C5: a click leaves the class list of every row as it was (the hidden
\* rows are the same), and a change of the checkbox leaves the order of
\* the body and the class list of every header as they were.
C5_FilterSortIndependence ==
  [][/\ event'.type = "click" => rowClass' = rowClass
     /\ event'.type = "change" => (tbodyRows' = tbodyRows /\ thClass' = thClass)]_vars

\* C5 witness: a click reordered a filtered body, some rows of which are
\* hidden and some shown.
C5_Witness ==
  /\ event.type = "click" /\ checked /\ Reordered
  /\ \E r \in Rows : Hidden(r)
  /\ \E r \in Rows : ~Hidden(r)

\* A cell text parses as a finite number: it is not blank and the whole of
\* it is one numeric literal with a finite value.
NumericCell(text) ==
  trim(text) # << >> /\ StringToNumber(text).kind = "finite"

\* The rows of the body follow each other in the order below(_, _) does not
\* contradict, read forwards (direction 1) or backwards (direction -1).
InOrder(direction, below(_, _)) ==
  \A i, j \in 1..Len(tbodyRows) :
    i < j => IF direction = 1 THEN ~below(tbodyRows[j], tbodyRows[i])
                              ELSE ~below(tbodyRows[i], tbodyRows[j])

\* C6: after a click on a column whose cells all parse as numbers the body
\* is in non-decreasing order of the numbers the cells write when ascending
\* was requested and in non-increasing order when descending was; after a
\* click on a column whose cells are all non-numeric the same holds of the
\* lower-cased texts.
C6_UniformColumnSorted ==
  event.type = "click" =>
    LET c == event.colIndex
        numberBelow(a, b) ==
          NumberLess(StringToNumber(cells[a][c]), StringToNumber(cells[b][c]))
        textBelow(a, b) ==
          StringLess(toLowerCase(trim(cells[a][c])), toLowerCase(trim(cells[b][c])))
    IN  /\ (\A r \in Rows : HasCell(r, c) /\ NumericCell(cells[r][c]))
             => InOrder(event.direction, numberBelow)
        /\ (\A r \in Rows : HasCell(r, c) /\ ~NumericCell(cells[r][c]))
             => InOrder(event.direction, textBelow)

\* The column mixes cells that parse as numbers with cells that do not.
MixedColumn(c) ==
  /\ \A r \in Rows : HasCell(r, c)
  /\ \E r \in Rows : NumericCell(cells[r][c])
  /\ \E r \in Rows : ~NumericCell(cells[r][c])

\* C7: after an ascending click on a column that mixes numeric and
\* non-numeric cells, the comparator answers 0 for no two rows with
\* different derived values, its answers are transitive, and no row of the
\* body stands before a row the comparator puts before it.
C7_MixedColumnTotalOrder ==
  (event.type = "click" /\ event.direction = 1 /\ MixedColumn(event.colIndex)) =>
    LET c == event.colIndex
        cmp(a, b) == comparator(a, b, c, 1)
    IN  /\ \A a, b \in Rows : cmp(a, b) = 0 => EqualDerived(a, b, c)
        /\ \A a, b, d \in Rows :
             (cmp(a, b) <= 0 /\ cmp(b, d) <= 0) => cmp(a, d) <= 0
        /\ \A i, j \in 1..Len(tbodyRows) :
             i < j => cmp(tbodyRows[i], tbodyRows[j]) <= 0

\* C8: every step leaves the body holding each row of the table exactly
\* once, and leaves every row its cell texts and its error class.
C8_RowsPreserved ==
  [][/\ Len(tbodyRows') = Len(cells)
     /\ \A r \in Rows : \E i \in 1..Len(tbodyRows') : tbodyRows'[i] = r
     /\ cells' = cells
     /\ \A r \in Rows : ("error" \in rowClass'[r]) <=> ("error" \in rowClass[r])]_vars

\* C8 witness: the body was reordered by a click and filtered, and holds
\* every row once.
C8_Witness ==
  /\ event.type = "click" /\ ~event.threw /\ checked /\ Reordered
  /\ \E r \in Rows : Hidden(r)
  /\ {tbodyRows[i] : i \in 1..Len(tbodyRows)} = Rows

\* C9: two rows with equal derived values in the clicked column get the
\* answer 0 from the comparator in both directions, and a click leaves them
\* in the relative order they had before it.
C9_StableOnTies ==
  [][event'.type = "click" =>
       \A i, j \in 1..Len(tbodyRows) :
         (/\ i < j
          /\ HasCell(tbodyRows[i], event'.colIndex)
          /\ HasCell(tbodyRows[j], event'.colIndex)
          /\ EqualDerived(tbodyRows[i], tbodyRows[j], event'.colIndex)) =>
           /\ comparator(tbodyRows[i], tbodyRows[j], event'.colIndex, 1) = 0
           /\ comparator(tbodyRows[j], tbodyRows[i], event'.colIndex, 1) = 0
           /\ comparator(tbodyRows[i], tbodyRows[j], event'.colIndex, -1) = 0
           /\ comparator(tbodyRows[j], tbodyRows[i], event'.colIndex, -1) = 0
           /\ Before(tbodyRows', tbodyRows[i], tbodyRows[j])]_vars

\* C10: a click on a column in which some row has no cell still completes:
\* the listener does not end by a throw, the clicked header carries its new
\* sort class, and the rows that have the cell are ordered by it.
C10_MalformedRowSortCompletes ==
  (event.type = "click" /\ \E r \in Rows : ~HasCell(r, event.colIndex)) =>
    /\ ~event.threw
    /\ thClass[event.colIndex] \cap SortClasses =
         {IF event.direction = 1 THEN "sorted-asc" ELSE "sorted-desc"}
    /\ \A i, j \in 1..Len(tbodyRows) :
         (i < j /\ HasCell(tbodyRows[i], event.colIndex)
                /\ HasCell(tbodyRows[j], event.colIndex)) =>
           comparator(tbodyRows[i], tbodyRows[j], event.colIndex, event.direction) <= 0

====
